---- MODULE Spec2Model ----
(***************************************************************************)
(* Model of the dj-vercel webhook handler: a Slack slash-command payload   *)
(* is normalised, validated, searched for a Spotify track URL, and the     *)
(* track is added to one (pages/api/dj.ts, the single-playlist variant) or *)
(* two (unnamed/part_000, the archive + monthly variant) playlists; the    *)
(* two-playlist variant then prunes the monthly playlist.                  *)
(*                                                                         *)
(* JavaScript strings are sequences of one-character strings, so that      *)
(* decoding, the URL regular expression, slice(0, -1) and the URI parser   *)
(* are computed character by character.  Times are whole seconds.          *)
(***************************************************************************)
EXTENDS Integers, Sequences, FiniteSets, TLC

(***************************************************************************)
(* String helpers                                                          *)
(***************************************************************************)
Min(S) == CHOOSE x \in S : \A y \in S : x <= y

StartsWithAt(s, i, p) ==
    /\ i >= 1
    /\ i + Len(p) - 1 <= Len(s)
    /\ SubSeq(s, i, i + Len(p) - 1) = p

\* Indices of s at or after `from` that hold one of the characters in cs.
IndicesOf(s, from, cs) == {k \in from..Len(s) : s[k] \in cs}

\* String.prototype.split(sep) for a one-character separator.
RECURSIVE Split(_, _)
Split(s, sep) ==
    LET hits == IndicesOf(s, 1, {sep})
    IN  IF hits = {} THEN <<s>>
        ELSE LET k == Min(hits)
             IN  <<SubSeq(s, 1, k - 1)>> \o Split(SubSeq(s, k + 1, Len(s)), sep)

\* String.prototype.slice(0, -1)
SliceDropLast(s) == SubSeq(s, 1, Len(s) - 1)

(***************************************************************************)
(* Literals of the source                                                  *)
(***************************************************************************)
HTTP_SCHEME == <<"h", "t", "t", "p", ":", "/", "/">>
HTTPS_SCHEME == <<"h", "t", "t", "p", "s", ":", "/", "/">>
URI_PREFIX == <<"s", "p", "o", "t", "i", "f", "y", ":">>
KEY_token == <<"t", "o", "k", "e", "n">>
KEY_channel_id == <<"c", "h", "a", "n", "n", "e", "l", "_", "i", "d">>
KEY_text == <<"t", "e", "x", "t">>
T_track == <<"t", "r", "a", "c", "k">>
T_album == <<"a", "l", "b", "u", "m">>
T_artist == <<"a", "r", "t", "i", "s", "t">>
T_playlist == <<"p", "l", "a", "y", "l", "i", "s", "t">>
T_episode == <<"e", "p", "i", "s", "o", "d", "e">>
T_show == <<"s", "h", "o", "w">>

\* JavaScript values that are not strings.
Undefined == [kind |-> "undefined"]
Str(s) == [kind |-> "string", s |-> s]
Thrown(e) == [kind |-> "throw", error |-> e]

(***************************************************************************)
(* decodeURIComponent / encodeURIComponent                                 *)
(***************************************************************************)
\* The escapes of the characters this model's texts use.
EscapeOf ==
    [c \in {"<", ">", ":", "/", "?", "=", " ", "&", "#", "%", ","} |->
        CASE c = "<" -> <<"%", "3", "C">>
          [] c = ">" -> <<"%", "3", "E">>
          [] c = ":" -> <<"%", "3", "A">>
          [] c = "/" -> <<"%", "2", "F">>
          [] c = "?" -> <<"%", "3", "F">>
          [] c = "=" -> <<"%", "3", "D">>
          [] c = " " -> <<"%", "2", "0">>
          [] c = "&" -> <<"%", "2", "6">>
          [] c = "#" -> <<"%", "2", "3">>
          [] c = "%" -> <<"%", "2", "5">>
          [] c = "," -> <<"%", "2", "C">>]

IsEscapeAt(s, i) == \E c \in DOMAIN EscapeOf : StartsWithAt(s, i, EscapeOf[c])

UnescapeAt(s, i) == CHOOSE c \in DOMAIN EscapeOf : StartsWithAt(s, i, EscapeOf[c])

RECURSIVE DecodeFrom(_, _)
DecodeFrom(s, i) ==
    LET escapes == {k \in i..Len(s) : s[k] = "%"}
    IN  IF escapes = {} THEN SubSeq(s, i, Len(s))
        ELSE LET k == Min(escapes)
             IN  SubSeq(s, i, k - 1) \o <<UnescapeAt(s, k)>> \o DecodeFrom(s, k + 3)

\* decodeURIComponent: a "%" that does not start an escape raises URIError.
decodeURIComponent(s) ==
    IF \E i \in 1..Len(s) : s[i] = "%" /\ ~IsEscapeAt(s, i)
    THEN Thrown("URIError")
    ELSE Str(DecodeFrom(s, 1))

RECURSIVE encodeURIComponent(_)
encodeURIComponent(s) ==
    LET reserved == {k \in 1..Len(s) : s[k] \in DOMAIN EscapeOf}
    IN  IF reserved = {} THEN s
        ELSE LET k == Min(reserved)
             IN  SubSeq(s, 1, k - 1) \o EscapeOf[s[k]]
                     \o encodeURIComponent(SubSeq(s, k + 1, Len(s)))

(***************************************************************************)
(* URL_REGEX: "http://" or "https://", then the longest run of non-spaces  *)
(***************************************************************************)
MatchStarts(s) ==
    {i \in 1..Len(s) : StartsWithAt(s, i, HTTP_SCHEME) \/ StartsWithAt(s, i, HTTPS_SCHEME)}

\* String.prototype.match(URL_REGEX): null, or the leftmost match, which runs
\* from the scheme to the character before the next space.
MatchURL(s) ==
    IF MatchStarts(s) = {} THEN [kind |-> "null"]
    ELSE LET i == Min(MatchStarts(s))
             spaces == IndicesOf(s, i, {" "})
             j == IF spaces = {} THEN Len(s) ELSE Min(spaces) - 1
         IN  Str(SubSeq(s, i, j))

(***************************************************************************)
(* spotify-uri: parse(url) and toURI()                                     *)
(***************************************************************************)
SpotifyTypes == {T_track, T_album, T_artist, T_playlist, T_episode, T_show}

\* The part of an http(s) URL after the scheme, or <<>> when there is none.
AfterScheme(url) ==
    IF StartsWithAt(url, 1, HTTPS_SCHEME) THEN SubSeq(url, Len(HTTPS_SCHEME) + 1, Len(url))
    ELSE IF StartsWithAt(url, 1, HTTP_SCHEME) THEN SubSeq(url, Len(HTTP_SCHEME) + 1, Len(url))
    ELSE <<>>

\* The URL's pathname: from the first "/" after the host to the query or fragment.
Pathname(url) ==
    LET rest == AfterScheme(url)
        stops == IndicesOf(rest, 1, {"?", "#"})
        noQuery == IF stops = {} THEN rest ELSE SubSeq(rest, 1, Min(stops) - 1)
        slashes == IndicesOf(noQuery, 1, {"/"})
    IN  IF slashes = {} THEN <<"/">> ELSE SubSeq(noQuery, Min(slashes), Len(noQuery))

HostOf(url) ==
    LET rest == AfterScheme(url)
        stops == IndicesOf(rest, 1, {"/", "?", "#"})
    IN  IF stops = {} THEN rest ELSE SubSeq(rest, 1, Min(stops) - 1)

\* spotifyUri.parse: the resource type is the first path segment and the id
\* the second; a URL without a host, or whose first segment is no Spotify
\* resource type, raises TypeError.
spotifyUriParse(url) ==
    LET parts == Split(Pathname(url), "/")
    IN  IF HostOf(url) = <<>> THEN Thrown("TypeError")
        ELSE IF Len(parts) >= 2 /\ parts[2] \in SpotifyTypes
        THEN [kind |-> "parsed", type |-> parts[2],
              id |-> IF Len(parts) >= 3 THEN parts[3] ELSE <<>>]
        ELSE Thrown("TypeError")

\* parsed.toURI(): spotify:<type>:<encoded id>
toURI(parsed) == URI_PREFIX \o parsed.type \o <<":">> \o encodeURIComponent(parsed.id)

(***************************************************************************)
(* getSpotifyURI                                                           *)
(***************************************************************************)
\* The extracted, sliced URL candidate (lines 79-84).
SlicedMatch(decoded) ==
    LET textTokens == MatchURL(decoded)
    IN  IF textTokens.kind # "null" THEN Str(SliceDropLast(textTokens.s)) ELSE Undefined

\* Mutant: the type test never matches, so nothing is canonicalised.
CanonicalizeParsed_never(spotifyURL, parsed) == spotifyURL

\* Lines 86-95: only a parsed track replaces the candidate; any other parsed
\* type leaves the sliced URL in place.
CanonicalizeParsed(spotifyURL, parsed) ==
    IF parsed.type = T_track THEN Str(toURI(parsed)) ELSE spotifyURL

getSpotifyURI(text) ==
    LET decoded == decodeURIComponent(text)
    IN  IF decoded.kind = "throw" THEN decoded
        ELSE LET spotifyURL == SlicedMatch(decoded.s)
             IN  IF spotifyURL.kind = "string" /\ spotifyURL.s # <<>>
                 THEN LET parsed == spotifyUriParse(spotifyURL.s)
                      IN  IF parsed.kind = "throw" THEN parsed
                          ELSE CanonicalizeParsed(spotifyURL, parsed)
                 ELSE spotifyURL

(***************************************************************************)
(* JavaScript objects: a sequence of <<key, value>> pairs in insertion     *)
(* order, keys unique.                                                     *)
(***************************************************************************)
Obj(pairs) == [kind |-> "object", pairs |-> pairs]

HasKey(pairs, key) == \E n \in 1..Len(pairs) : pairs[n][1] = key

\* payload[key]: undefined for a key the object lacks, and for any key of a string.
Get(payload, key) ==
    IF payload.kind = "object" /\ HasKey(payload.pairs, key)
    THEN payload.pairs[CHOOSE n \in 1..Len(payload.pairs) : payload.pairs[n][1] = key][2]
    ELSE Undefined

\* { ...prev, [key]: value }
Put(pairs, key, value) ==
    IF HasKey(pairs, key)
    THEN [n \in 1..Len(pairs) |-> IF pairs[n][1] = key THEN <<key, value>> ELSE pairs[n]]
    ELSE Append(pairs, <<key, value>>)

\* !!value
Truthy(value) == value.kind = "string" /\ Len(value.s) > 0

(***************************************************************************)
(* parseSlackWebhookPayload                                                *)
(***************************************************************************)
\* const [key, value] = cur.split("="): the first two pieces of the split.
KeyValue(cur) ==
    LET pieces == Split(cur, "=")
    IN  <<pieces[1], IF Len(pieces) >= 2 THEN Str(pieces[2]) ELSE Undefined>>

RECURSIVE ReducePairs(_, _)
ReducePairs(prev, curs) ==
    IF curs = <<>> THEN prev
    ELSE LET kv == KeyValue(Head(curs))
         IN  ReducePairs(Put(prev, kv[1], kv[2]), Tail(curs))

\* payload.split("&").reduce(...); split is no method of a parsed object.
SplitPayload(payload) ==
    IF payload.kind = "string"
    THEN Obj(ReducePairs(<<>>, Split(payload.s, "&")))
    ELSE Thrown("TypeError")

\* unnamed/part_000: only local development splits the payload.
parseSlackWebhookPayload(payload, isLocalDev) ==
    IF isLocalDev THEN SplitPayload(payload) ELSE payload

(***************************************************************************)
(* isValidSlackWebhookPayload                                              *)
(***************************************************************************)
MUST_HAVE_KEYS == {KEY_token, KEY_channel_id, KEY_text}

\* Mutant: channel_id is left out of the required keys.
isValidSlackWebhookPayload_noChannel(payload) ==
    \A key \in {KEY_token, KEY_text} : Truthy(Get(payload, key))

isValidSlackWebhookPayload(payload) == \A key \in MUST_HAVE_KEYS : Truthy(Get(payload, key))

(***************************************************************************)
(* JSON.stringify, for the strings and objects of strings bodies are made  *)
(* of (no character of the model needs a JSON escape)                      *)
(***************************************************************************)
Quoted(s) == <<"\"">> \o s \o <<"\"">>

RECURSIVE StringifyPairs(_)
StringifyPairs(pairs) ==
    IF pairs = <<>> THEN <<>>
    ELSE LET kv == Head(pairs)
             rest == StringifyPairs(Tail(pairs))
             this == IF kv[2].kind = "string"
                     THEN Quoted(kv[1]) \o <<":">> \o Quoted(kv[2].s)
                     ELSE <<>>
         IN  IF this = <<>> THEN rest
             ELSE IF rest = <<>> THEN this
             ELSE this \o <<",">> \o rest

JSONstringify(value) ==
    IF value.kind = "string" THEN Str(Quoted(value.s))
    ELSE Str(<<"{">> \o StringifyPairs(value.pairs) \o <<"}">>)

(***************************************************************************)
(* State                                                                   *)
(***************************************************************************)
Invocations == {1, 2}

ARCHIVE == "SPOTIFY_ARCHIVE_PLAYLIST_ID"
MONTHLY == "SPOTIFY_MONTHLY_PLAYLIST_ID"
SINGLE == "SPOTIFY_PLAYLIST_ID"
PlaylistIDs == {ARCHIVE, MONTHLY, SINGLE}

VARIABLES
    variant,             \* "two": unnamed/part_000 is deployed; "single": pages/api/dj.ts
    isLocalDevelopment,  \* process.env.NODE_ENV === "development"
    body,                \* body[i]: req.body of invocation i
    pc,                  \* pc[i]: where invocation i stands
    tokens,              \* tokens[i]: the handler's local, the normalised payload
    isValidPayload,      \* isValidPayload[i]: the handler's local
    spotifyURL,          \* spotifyURL[i]: the handler's local
    res,                 \* res[i]: the statuses of the res.status(s).end() calls, in order
    accessToken,         \* accessToken[i]: the access token set on invocation i's client
    issued,              \* number of access tokens the accounts service has issued
    calls,               \* the outbound API calls issued so far, in order
    playlists,           \* playlists[p]: the remote playlist, a sequence of entries
    now,                 \* wall-clock time, seconds
    TODAY,               \* TODAY[i]: the pruner's local
    items,               \* items[i]: the pruner's local, the fetched page
    tracksToRemove       \* tracksToRemove[i]: the pruner's local

vars == <<variant, isLocalDevelopment, body, pc, tokens, isValidPayload, spotifyURL, res,
          accessToken, issued, calls, playlists, now, TODAY, items, tracksToRemove>>

\* SPOTIFY_AUTHORIZATION_CODE, the access token a client starts with; the
\* tokens a refresh returns are 1, 2, ...
AUTHORIZATION_CODE == 0

Call(i, op, p, track, uris, token) ==
    [inv |-> i, op |-> op, playlist |-> p, track |-> track, uris |-> uris,
     token |-> token, result |-> "pending", settledAfter |-> 0, total |-> 0,
     returned |-> 0]

\* The call settles; settledAfter records how many calls had been issued by then.
\* A refresh call that succeeds records the access token of its response in
\* `returned` (see Refreshed).
Settle(k, result) == [calls EXCEPT ![k].result = result, ![k].settledAfter = Len(calls)]

\* refreshAccessTokenResponse.body.access_token
Refreshed(k, token) == [Settle(k, "ok") EXCEPT ![k].returned = token]

\* The pending call of invocation i with operation op.
PendingCalls(i, op) ==
    {k \in 1..Len(calls) : calls[k].inv = i /\ calls[k].op = op /\ calls[k].result = "pending"}

(***************************************************************************)
(* The music-service API, as the calls of the source use it                *)
(***************************************************************************)
\* getPlaylistTracks(playlistID, { limit: 50 })
PAGE_LIMIT == 50

\* pruneOldTracksFromPlaylist(spotifyApi, SPOTIFY_MONTHLY_PLAYLIST_ID, 30)
AGE_TO_PRUNE_IN_DAYS == 30

\* 1000 * 3600 * 24 milliseconds, in the model's seconds
SecondsPerDay == 3600 * 24

\* addTracksToPlaylist appends the track to the playlist, stamped with the time.
ApiAdd(p, track) ==
    [playlists EXCEPT ![p] = Append(@, [uri |-> track, added_at |-> now])]

\* Mutant: the listing ignores the limit.
ApiGetPage_all(p, limit) == playlists[p]

\* getPlaylistTracks returns the first `limit` entries.
ApiGetPage(p, limit) ==
    SubSeq(playlists[p], 1, IF Len(playlists[p]) < limit THEN Len(playlists[p]) ELSE limit)

\* removeTracksFromPlaylist(p, [{ uri }, ...]) is given URIs only, no
\* positions: every entry of the playlist with one of the URIs goes.
Without(entries, uris) ==
    SelectSeq(entries, LAMBDA entry : \A n \in 1..Len(uris) : uris[n] # entry.uri)

ApiRemove(p, uris) == [playlists EXCEPT ![p] = Without(@, uris)]

(***************************************************************************)
(* pruneOldTracksFromPlaylist: the selection                               *)
(***************************************************************************)
\* Mutant: the boundary is exclusive.
IsOld_strict(track, today, ageToPruneInDays) ==
    today - track.added_at > ageToPruneInDays * SecondsPerDay

\* diffInDays >= ageToPruneInDays, with diffInDays = diffInTime / one day: for
\* a whole number of days this is diffInTime >= ageToPruneInDays * one day.
IsOld(track, today, ageToPruneInDays) ==
    today - track.added_at >= ageToPruneInDays * SecondsPerDay

FilterOld(page, today, ageToPruneInDays) ==
    SelectSeq(page, LAMBDA track : IsOld(track, today, ageToPruneInDays))

\* Mutant: only the first selected track is mapped.
URIsOf_firstOnly(tracks) == IF tracks = <<>> THEN <<>> ELSE <<tracks[1].uri>>

\* tracksToRemove.map((track) => ({ uri: track.track.uri }))
URIsOf(tracks) == [n \in 1..Len(tracks) |-> tracks[n].uri]

(***************************************************************************)
(* The handler, up to its first await                                      *)
(***************************************************************************)
Respond(i, statuses) == res' = [res EXCEPT ![i] = @ \o statuses]

\* Lines 20-23: the handler's locals tokens and isValidPayload.
SetTokens(i, payload) ==
    /\ tokens' = [tokens EXCEPT ![i] = payload]
    /\ isValidPayload' =
          [isValidPayload EXCEPT ![i] =
              IF payload.kind = "throw" THEN @ ELSE isValidSlackWebhookPayload(payload)]

\* What the synchronous part of the handler decides, given the normalised
\* payload: the handler rejects ("throw"), answers 400, or goes on with a URL.
HandlerDecision(payload) ==
    IF payload.kind = "throw" THEN payload
    ELSE IF ~isValidSlackWebhookPayload(payload) THEN [kind |-> "status", status |-> 400]
    ELSE LET url == getSpotifyURI(Get(payload, KEY_text).s)
         IN  IF url.kind = "undefined" THEN [kind |-> "status", status |-> 400] ELSE url

\* unnamed/part_000, lines 20-39 and 99-108: everything up to the await of
\* refreshAccessToken runs without interruption.
handler(i) ==
    /\ variant = "two"
    /\ pc[i] = "start"
    /\ SetTokens(i, parseSlackWebhookPayload(body[i], isLocalDevelopment))
    /\ LET d == HandlerDecision(parseSlackWebhookPayload(body[i], isLocalDevelopment))
       IN  CASE d.kind = "throw" ->
                  /\ pc' = [pc EXCEPT ![i] = "rejected"]
                  /\ UNCHANGED <<spotifyURL, res, accessToken, calls>>
             [] d.kind = "status" ->
                  /\ Respond(i, <<d.status>>)
                  /\ pc' = [pc EXCEPT ![i] = "done"]
                  /\ UNCHANGED <<spotifyURL, accessToken, calls>>
             [] d.kind = "string" ->
                  /\ spotifyURL' = [spotifyURL EXCEPT ![i] = d]
                  /\ accessToken' = [accessToken EXCEPT ![i] = AUTHORIZATION_CODE]
                  /\ calls' = Append(calls, Call(i, "refresh", "", <<>>, <<>>, AUTHORIZATION_CODE))
                  /\ pc' = [pc EXCEPT ![i] = "awaitRefresh"]
                  /\ UNCHANGED res
    /\ UNCHANGED <<variant, isLocalDevelopment, body, issued, playlists, now, TODAY, items,
                   tracksToRemove>>

(***************************************************************************)
(* addTrackToPlaylist of unnamed/part_000                                  *)
(***************************************************************************)
\* Mutant: one client is shared by all invocations, so the refreshed token
\* replaces the token of every invocation.
refreshFulfilled_sharedClient(i) ==
    /\ pc[i] = "awaitRefresh"
    /\ \E k \in PendingCalls(i, "refresh") :
          LET token == issued + 1
          IN  /\ issued' = token
              /\ accessToken' = [j \in Invocations |-> token]
              /\ calls' = Refreshed(k, token)
                     \o <<Call(i, "add", ARCHIVE, spotifyURL[i].s, <<>>, token),
                          Call(i, "add", MONTHLY, spotifyURL[i].s, <<>>, token)>>
    /\ pc' = [pc EXCEPT ![i] = "awaitAdds"]
    /\ UNCHANGED <<res, playlists>>

\* Lines 109-123: the refresh succeeded; the new token is set and both adds
\* are issued before Promise.allSettled is awaited.
refreshFulfilled(i) ==
    /\ pc[i] = "awaitRefresh"
    /\ \E k \in PendingCalls(i, "refresh") :
          LET token == issued + 1
              settled == Refreshed(k, token)
          IN  /\ issued' = token
              /\ accessToken' = [accessToken EXCEPT ![i] = token]
              /\ calls' = settled
                     \o <<Call(i, "add", ARCHIVE, spotifyURL[i].s, <<>>, token),
                          Call(i, "add", MONTHLY, spotifyURL[i].s, <<>>, token)>>
    /\ pc' = [pc EXCEPT ![i] = "awaitAdds"]
    /\ UNCHANGED <<res, playlists>>

\* Mutant: the rejection of the refresh is swallowed and the adds are issued
\* with the token the client already holds.
refreshRejected_swallowed(i) ==
    /\ pc[i] = "awaitRefresh"
    /\ \E k \in PendingCalls(i, "refresh") :
          calls' = Settle(k, "failed")
                 \o <<Call(i, "add", ARCHIVE, spotifyURL[i].s, <<>>, accessToken[i]),
                      Call(i, "add", MONTHLY, spotifyURL[i].s, <<>>, accessToken[i])>>
    /\ pc' = [pc EXCEPT ![i] = "awaitAdds"]
    /\ UNCHANGED <<res, issued, accessToken, playlists>>

\* Lines 108 and 41-45: the await throws outside the try of addTrackToPlaylist;
\* the handler's catch answers 500 and falls through to the 200 of line 45.
refreshRejected(i) ==
    /\ pc[i] = "awaitRefresh"
    /\ \E k \in PendingCalls(i, "refresh") : calls' = Settle(k, "failed")
    /\ Respond(i, <<500, 200>>)
    /\ pc' = [pc EXCEPT ![i] = "done"]
    /\ UNCHANGED <<issued, accessToken, playlists>>

refreshAccessTokenSettles(i) ==
    /\ variant = "two"
    /\ refreshFulfilled(i) \/ refreshRejected(i)
    /\ UNCHANGED <<variant, isLocalDevelopment, body, tokens, isValidPayload, spotifyURL, now,
                   TODAY, items, tracksToRemove>>

\* Mutant: a rejected add is issued again.
addTracksToPlaylistSettles_retry(i) ==
    /\ variant = "two"
    /\ pc[i] = "awaitAdds"
    /\ \E k \in PendingCalls(i, "add") :
          \/ /\ calls' = Settle(k, "ok")
             /\ playlists' = ApiAdd(calls[k].playlist, calls[k].track)
          \/ /\ calls' = Append(Settle(k, "failed"),
                                Call(i, "add", calls[k].playlist, calls[k].track, <<>>,
                                     calls[k].token))
             /\ UNCHANGED playlists
    /\ UNCHANGED <<variant, isLocalDevelopment, body, pc, tokens, isValidPayload, spotifyURL,
                   res, accessToken, issued, now, TODAY, items, tracksToRemove>>

\* One addTracksToPlaylist promise settles: the service appended the track,
\* or it did not.
addTracksToPlaylistSettles(i) ==
    /\ variant = "two"
    /\ pc[i] = "awaitAdds"
    /\ \E k \in PendingCalls(i, "add") :
          \/ /\ calls' = Settle(k, "ok")
             /\ playlists' = ApiAdd(calls[k].playlist, calls[k].track)
          \/ /\ calls' = Settle(k, "failed")
             /\ UNCHANGED playlists
    /\ UNCHANGED <<variant, isLocalDevelopment, body, pc, tokens, isValidPayload, spotifyURL,
                   res, accessToken, issued, now, TODAY, items, tracksToRemove>>

\* Lines 120-130 and 165-169: Promise.allSettled resolves once both adds have
\* settled, whatever their outcomes; the pruner starts and lists the playlist.
allSettled(i) ==
    /\ variant = "two"
    /\ pc[i] = "awaitAdds"
    /\ PendingCalls(i, "add") = {}
    /\ TODAY' = [TODAY EXCEPT ![i] = now]
    /\ calls' = Append(calls, Call(i, "get", MONTHLY, <<>>, <<>>, accessToken[i]))
    /\ pc' = [pc EXCEPT ![i] = "awaitGet"]
    /\ UNCHANGED <<variant, isLocalDevelopment, body, tokens, isValidPayload, spotifyURL,
                   res, accessToken, issued, playlists, now, items, tracksToRemove>>

\* Lines 171-184: the page arrived; select the old entries and issue the removal.
getFulfilled(i) ==
    /\ \E k \in PendingCalls(i, "get") :
          LET page == ApiGetPage(calls[k].playlist, PAGE_LIMIT)
              old == FilterOld(page, TODAY[i], AGE_TO_PRUNE_IN_DAYS)
              settled == [Settle(k, "ok") EXCEPT
                             ![k].total = Len(playlists[calls[k].playlist])]
          IN  /\ items' = [items EXCEPT ![i] = page]
              /\ tracksToRemove' = [tracksToRemove EXCEPT ![i] = old]
              /\ calls' = Append(settled,
                                 Call(i, "remove", calls[k].playlist, <<>>, URIsOf(old),
                                      accessToken[i]))
    /\ pc' = [pc EXCEPT ![i] = "awaitRemove"]
    /\ UNCHANGED res

\* Mutant: an error of the pruner reaches the handler's catch.
getRejected_propagated(i) ==
    /\ \E k \in PendingCalls(i, "get") : calls' = Settle(k, "failed")
    /\ Respond(i, <<500, 200>>)
    /\ pc' = [pc EXCEPT ![i] = "done"]
    /\ UNCHANGED <<items, tracksToRemove>>

\* Lines 133-137 and 40-45: an error of the pruner is caught and logged by
\* addTrackToPlaylist, which returns {}; the handler answers 200.
getRejected(i) ==
    /\ \E k \in PendingCalls(i, "get") : calls' = Settle(k, "failed")
    /\ Respond(i, <<200>>)
    /\ pc' = [pc EXCEPT ![i] = "done"]
    /\ UNCHANGED <<items, tracksToRemove>>

getPlaylistTracksSettles(i) ==
    /\ variant = "two"
    /\ pc[i] = "awaitGet"
    /\ getFulfilled(i) \/ getRejected(i)
    /\ UNCHANGED <<variant, isLocalDevelopment, body, tokens, isValidPayload, spotifyURL,
                   accessToken, issued, playlists, now, TODAY>>

\* Lines 184-187, 132-137 and 40-45: the removal settles; either way
\* addTrackToPlaylist returns {} and the handler answers 200.
removeTracksFromPlaylistSettles(i) ==
    /\ variant = "two"
    /\ pc[i] = "awaitRemove"
    /\ \E k \in PendingCalls(i, "remove") :
          \/ /\ calls' = Settle(k, "ok")
             /\ playlists' = ApiRemove(calls[k].playlist, calls[k].uris)
          \/ /\ calls' = Settle(k, "failed")
             /\ UNCHANGED playlists
    /\ Respond(i, <<200>>)
    /\ pc' = [pc EXCEPT ![i] = "done"]
    /\ UNCHANGED <<variant, isLocalDevelopment, body, tokens, isValidPayload, spotifyURL,
                   accessToken, issued, now, TODAY, items, tracksToRemove>>

(***************************************************************************)
(* pages/api/dj.ts, the single-playlist variant                            *)
(***************************************************************************)
\* dj.ts line 20: the body is stringified, then always split.
dj_parseSlackWebhookPayload(reqBody) == SplitPayload(JSONstringify(reqBody))

\* dj.ts lines 19-43 and 90-116: addTrackToPlaylist starts the promise chain
\* and returns {} without awaiting it, so the handler answers 200 at once.
dj_handler(i) ==
    /\ variant = "single"
    /\ pc[i] = "start"
    /\ SetTokens(i, dj_parseSlackWebhookPayload(body[i]))
    /\ LET d == HandlerDecision(dj_parseSlackWebhookPayload(body[i]))
       IN  CASE d.kind = "throw" ->
                  /\ pc' = [pc EXCEPT ![i] = "rejected"]
                  /\ UNCHANGED <<spotifyURL, res, accessToken, calls>>
             [] d.kind = "status" ->
                  /\ Respond(i, <<d.status>>)
                  /\ pc' = [pc EXCEPT ![i] = "done"]
                  /\ UNCHANGED <<spotifyURL, accessToken, calls>>
             [] d.kind = "string" ->
                  /\ spotifyURL' = [spotifyURL EXCEPT ![i] = d]
                  /\ accessToken' = [accessToken EXCEPT ![i] = AUTHORIZATION_CODE]
                  /\ calls' = Append(calls, Call(i, "refresh", "", <<>>, <<>>, AUTHORIZATION_CODE))
                  /\ Respond(i, <<200>>)
                  /\ pc' = [pc EXCEPT ![i] = "awaitRefresh"]
    /\ UNCHANGED <<variant, isLocalDevelopment, body, issued, playlists, now, TODAY, items,
                   tracksToRemove>>

\* dj.ts lines 102-108 and 112-114: the first then-callback sets the token and
\* issues the add; a rejected refresh goes to the catch-callback, which logs.
dj_refreshAccessTokenSettles(i) ==
    /\ variant = "single"
    /\ pc[i] = "awaitRefresh"
    /\ \E k \in PendingCalls(i, "refresh") :
          \/ LET token == issued + 1
             IN  /\ issued' = token
                 /\ accessToken' = [accessToken EXCEPT ![i] = token]
                 /\ calls' = Append(Refreshed(k, token),
                                    Call(i, "add", SINGLE, spotifyURL[i].s, <<>>, token))
                 /\ pc' = [pc EXCEPT ![i] = "awaitAdd"]
          \/ /\ calls' = Settle(k, "failed")
             /\ pc' = [pc EXCEPT ![i] = "done"]
             /\ UNCHANGED <<issued, accessToken>>
    /\ UNCHANGED <<variant, isLocalDevelopment, body, tokens, isValidPayload, spotifyURL,
                   res, playlists, now, TODAY, items, tracksToRemove>>

\* dj.ts lines 109-114: the add settles; the callbacks only log.
dj_addTracksToPlaylistSettles(i) ==
    /\ variant = "single"
    /\ pc[i] = "awaitAdd"
    /\ \E k \in PendingCalls(i, "add") :
          \/ /\ calls' = Settle(k, "ok")
             /\ playlists' = ApiAdd(calls[k].playlist, calls[k].track)
          \/ /\ calls' = Settle(k, "failed")
             /\ UNCHANGED playlists
    /\ pc' = [pc EXCEPT ![i] = "done"]
    /\ UNCHANGED <<variant, isLocalDevelopment, body, tokens, isValidPayload, spotifyURL,
                   res, accessToken, issued, now, TODAY, items, tracksToRemove>>

(***************************************************************************)
(* Inputs                                                                  *)
(***************************************************************************)
HOST == <<"o", "p", "e", "n", ".", "s", "p", "o", "t", "i", "f", "y", ".", "c", "o", "m">>
ID_AB == <<"A", "B">>
ID_CD == <<"C", "D">>
\* The track of the documented example payload.
ID_EXAMPLE ==
    <<"6", "J", "1", "Q", "c", "r", "e", "g", "3", "a", "9", "h", "l", "J", "u", "v", "J",
      "C", "v", "j", "l", "5">>
SI_QUERY == <<"?", "s", "i", "=", "x">>
SI_EXAMPLE ==
    <<"?", "s", "i", "=", "2", "v", "E", "I", "S", "P", "1", "T", "S", "0", "i", "i", "l",
      "w", "l", "u", "Z", "T", "e", "D", "S", "Q">>

\* scheme://open.spotify.com/<type>/<id><query>
ResourceURL(scheme, type, id, query) == scheme \o HOST \o <<"/">> \o type \o <<"/">> \o id \o query

TrackURI(id) == URI_PREFIX \o T_track \o <<":">> \o id

\* A message text: a resource URL, bracketed or not, inside other text.
Text(prefix, open, url, close, suffix) == prefix \o open \o url \o close \o suffix

OTHER_URL_FIRST ==
    <<"<">> \o ResourceURL(HTTPS_SCHEME, T_album, <<"Z", "Z">>, <<>>) \o <<">", " ">>

Prefixes == {<<>>, <<"h", "i", " ">>, OTHER_URL_FIRST}
Suffixes == {<<>>, <<" ", "o", "k">>, <<"!">>}

ResourceURLs ==
    {ResourceURL(scheme, type, id, query) :
        scheme \in {HTTP_SCHEME, HTTPS_SCHEME},
        type \in {T_track, T_album, T_artist, T_playlist},
        id \in {ID_AB, ID_EXAMPLE},
        query \in {<<>>, SI_QUERY}}

\* The texts the extractor is checked on.
Texts ==
    {Text(prefix, open, url, close, suffix) :
        prefix \in Prefixes, open \in {<<>>, <<"<">>}, url \in ResourceURLs,
        close \in {<<>>, <<">">>}, suffix \in Suffixes}
    \cup {<<"h", "i">>}

\* key=value&key=value
RECURSIVE Form(_)
Form(pairs) ==
    IF pairs = <<>> THEN <<>>
    ELSE LET kv == Head(pairs)
             this == IF kv[2].kind = "string" THEN kv[1] \o <<"=">> \o kv[2].s ELSE kv[1]
         IN  IF Len(pairs) = 1 THEN this ELSE this \o <<"&">> \o Form(Tail(pairs))

VAL_T == Str(<<"T">>)
VAL_C == Str(<<"C">>)
KEY_team_id == <<"t", "e", "a", "m", "_", "i", "d">>
KEY_user_name == <<"u", "s", "e", "r", "_", "n", "a", "m", "e">>

\* The documented payload shape: token, channel_id and the percent-encoded text.
ExampleForm(text) ==
    Str(Form(<<<<KEY_token, VAL_T>>, <<KEY_channel_id, VAL_C>>,
               <<KEY_text, Str(encodeURIComponent(text))>>>>))

\* A form with fields before and after the three required ones.
FullForm(token, channel, text) ==
    Str(Form(<<<<KEY_team_id, VAL_T>>, <<KEY_token, token>>, <<KEY_channel_id, channel>>,
               <<KEY_text, text>>, <<KEY_user_name, VAL_T>>>>))

BRACKETED_TRACK == Text(<<>>, <<"<">>, ResourceURL(HTTPS_SCHEME, T_track, ID_AB, SI_QUERY), <<">">>, <<>>)
BRACKETED_ALBUM == Text(<<>>, <<"<">>, ResourceURL(HTTPS_SCHEME, T_album, ID_AB, <<>>), <<">">>, <<>>)
BARE_TRACK == ResourceURL(HTTPS_SCHEME, T_track, ID_CD, <<>>)
\* The text of the documented example payload.
EXAMPLE_TEXT ==
    Text(<<>>, <<"<">>, ResourceURL(HTTPS_SCHEME, T_track, ID_EXAMPLE, SI_EXAMPLE), <<">">>, <<>>)
NOT_SPOTIFY == <<"<">> \o HTTPS_SCHEME \o <<"x", ".", "c", "o", ">">>
NO_URL == <<"h", "i">>

Enc(text) == Str(encodeURIComponent(text))

\* Request bodies of the handler: url-encoded form strings and parsed objects.
Bodies ==
    {FullForm(VAL_T, VAL_C, Enc(text)) :
        text \in {BRACKETED_TRACK, BRACKETED_ALBUM, BARE_TRACK, NOT_SPOTIFY, NO_URL}}
    \cup {ExampleForm(BRACKETED_TRACK),
          FullForm(Undefined, VAL_C, Enc(BRACKETED_TRACK)),
          FullForm(Str(<<>>), VAL_C, Enc(BRACKETED_TRACK)),
          FullForm(VAL_T, Str(<<>>), Enc(BRACKETED_TRACK)),
          FullForm(VAL_T, VAL_C, Str(<<>>)),
          Obj(<<<<KEY_token, VAL_T>>, <<KEY_channel_id, VAL_C>>, <<KEY_text, Str(BRACKETED_TRACK)>>>>),
          Obj(<<<<KEY_token, VAL_T>>, <<KEY_channel_id, VAL_C>>, <<KEY_text, Str(BRACKETED_ALBUM)>>>>),
          Obj(<<<<KEY_token, VAL_T>>, <<KEY_channel_id, VAL_C>>>>),
          Obj(<<<<KEY_token, VAL_T>>, <<KEY_channel_id, Str(<<>>)>>, <<KEY_text, Str(BRACKETED_TRACK)>>>>)}

\* Wall-clock time at the start, and the ages of the entries playlists start with.
StartTime == 40 * SecondsPerDay
EntryAges ==
    {0, 29 * SecondsPerDay, 30 * SecondsPerDay - 1, 30 * SecondsPerDay, 31 * SecondsPerDay}
Entries ==
    {[uri |-> TrackURI(id), added_at |-> StartTime - age] : id \in {ID_AB, ID_CD}, age \in EntryAges}

\* Bound: the most entries the monthly playlist starts with in Spec.
MaxInitialEntries == 1

SeqsUpTo(S, n) == UNION {[1..m -> S] : m \in 0..n}

NoBody == Str(<<>>)

(***************************************************************************)
(* The handler's specification: one invocation, either variant             *)
(***************************************************************************)
InitLocals ==
    /\ tokens = [i \in Invocations |-> Undefined]
    /\ isValidPayload = [i \in Invocations |-> FALSE]
    /\ items = [i \in Invocations |-> <<>>]
    /\ spotifyURL = [i \in Invocations |-> Undefined]
    /\ res = [i \in Invocations |-> <<>>]
    /\ accessToken = [i \in Invocations |-> AUTHORIZATION_CODE]
    /\ TODAY = [i \in Invocations |-> 0]
    /\ tracksToRemove = [i \in Invocations |-> <<>>]

Init ==
    /\ variant \in {"two", "single"}
    /\ isLocalDevelopment \in (IF variant = "two" THEN BOOLEAN ELSE {FALSE})
    /\ \E b \in Bodies : body = [i \in Invocations |-> IF i = 1 THEN b ELSE NoBody]
    /\ pc = [i \in Invocations |-> IF i = 1 THEN "start" ELSE "unused"]
    /\ InitLocals
    /\ issued = 0
    /\ calls = <<>>
    /\ \E m \in SeqsUpTo(Entries, MaxInitialEntries) :
          playlists = [p \in PlaylistIDs |-> IF p = MONTHLY THEN m ELSE <<>>]
    /\ now = StartTime

Next ==
    \E i \in Invocations :
        \/ handler(i)
        \/ refreshAccessTokenSettles(i)
        \/ addTracksToPlaylistSettles(i)
        \/ allSettled(i)
        \/ getPlaylistTracksSettles(i)
        \/ removeTracksFromPlaylistSettles(i)
        \/ dj_handler(i)
        \/ dj_refreshAccessTokenSettles(i)
        \/ dj_addTracksToPlaylistSettles(i)

Spec == Init /\ [][Next]_vars

(***************************************************************************)
(* The synchronous part of the handler on many payloads: the normaliser,   *)
(* the validator and the extractor are applied by the handler's first step *)
(***************************************************************************)
FieldChoices == {"absent", "undefined", "empty", "value"}

\* The pairs a field contributes: none, key -> undefined, key -> "", key -> value.
FieldPairs(key, choice, value) ==
    CASE choice = "absent" -> <<>>
      [] choice = "undefined" -> <<<<key, Undefined>>>>
      [] choice = "empty" -> <<<<key, Str(<<>>)>>>>
      [] choice = "value" -> <<<<key, value>>>>

ValidationPairs(t, c, x, text) ==
    FieldPairs(KEY_token, t, VAL_T) \o FieldPairs(KEY_channel_id, c, VAL_C)
        \o FieldPairs(KEY_text, x, text)

\* Parsed objects and form strings with every combination of the three fields.
ValidationBodies ==
    {Obj(ValidationPairs(t, c, x, Str(BRACKETED_TRACK))) :
        t \in FieldChoices, c \in FieldChoices, x \in FieldChoices}
    \cup {Str(Form(ValidationPairs(t, c, x, Enc(BRACKETED_TRACK)))) :
        t \in FieldChoices, c \in FieldChoices, x \in FieldChoices}

ExtractionBodies ==
    {FullForm(VAL_T, VAL_C, Enc(text)) : text \in Texts} \cup {ExampleForm(EXAMPLE_TEXT)}

\* Form strings whose values hold a literal "=": an unencoded text, a token
\* with "=" inside, and a text that ends in "=".
VAL_T_EQ == Str(<<"T", "=", "1">>)
UnencodedBodies ==
    {FullForm(VAL_T, VAL_C, Str(BRACKETED_TRACK)),
     FullForm(VAL_T_EQ, VAL_C, Enc(BRACKETED_TRACK)),
     FullForm(VAL_T, VAL_C, Str(<<"a", "=", "b", "=", "c">>)),
     FullForm(VAL_T, VAL_C, Str(<<"=", "b">>))}

InitEntry ==
    /\ variant \in {"two", "single"}
    /\ isLocalDevelopment \in (IF variant = "two" THEN BOOLEAN ELSE {FALSE})
    /\ \E b \in ValidationBodies \cup ExtractionBodies \cup UnencodedBodies :
          body = [i \in Invocations |-> IF i = 1 THEN b ELSE NoBody]
    /\ pc = [i \in Invocations |-> IF i = 1 THEN "start" ELSE "unused"]
    /\ InitLocals
    /\ issued = 0
    /\ calls = <<>>
    /\ playlists = [p \in PlaylistIDs |-> <<>>]
    /\ now = StartTime

NextEntry == \E i \in Invocations : handler(i) \/ dj_handler(i)

SpecEntry == InitEntry /\ [][NextEntry]_vars

(***************************************************************************)
(* The pruner on long playlists: two invocations whose adds were both      *)
(* rejected are about to prune the monthly playlist                        *)
(***************************************************************************)
\* Bound: the most entries that follow the padding of a long playlist.
MaxTail == 1

PAD_URI == TrackURI(<<"X", "Y">>)
PadEntries ==
    {[uri |-> PAD_URI, added_at |-> StartTime - age] :
        age \in {0, 29 * SecondsPerDay, 31 * SecondsPerDay}}
PadLengths == {0, PAGE_LIMIT - 1, PAGE_LIMIT}

\* n copies of one entry, then up to MaxTail arbitrary entries.
LongPlaylists ==
    {[n \in 1..padLen |-> pad] \o tail :
        padLen \in PadLengths, pad \in PadEntries, tail \in SeqsUpTo(Entries, MaxTail)}

TRACK_BODY == FullForm(VAL_T, VAL_C, Enc(BRACKETED_TRACK))

\* The calls of an invocation whose refresh returned `token` and whose two
\* adds were both rejected.
RejectedAdds(i, token) ==
    <<[Call(i, "refresh", "", <<>>, <<>>, AUTHORIZATION_CODE)
          EXCEPT !.result = "ok", !.settledAfter = 2 * 3, !.returned = token],
      [Call(i, "add", ARCHIVE, TrackURI(ID_AB), <<>>, token)
          EXCEPT !.result = "failed", !.settledAfter = 2 * 3],
      [Call(i, "add", MONTHLY, TrackURI(ID_AB), <<>>, token)
          EXCEPT !.result = "failed", !.settledAfter = 2 * 3]>>

InitPruner ==
    /\ variant = "two"
    /\ isLocalDevelopment = TRUE
    /\ body = [i \in Invocations |-> TRACK_BODY]
    /\ pc = [i \in Invocations |-> "awaitAdds"]
    /\ tokens = [i \in Invocations |-> SplitPayload(TRACK_BODY)]
    /\ isValidPayload = [i \in Invocations |-> TRUE]
    /\ spotifyURL = [i \in Invocations |-> Str(TrackURI(ID_AB))]
    /\ res = [i \in Invocations |-> <<>>]
    /\ accessToken = [i \in Invocations |-> i]
    /\ issued = 2
    /\ calls = RejectedAdds(1, 1) \o RejectedAdds(2, 2)
    /\ \E m \in LongPlaylists :
          playlists = [p \in PlaylistIDs |-> IF p = MONTHLY THEN m ELSE <<>>]
    /\ now = StartTime
    /\ TODAY = [i \in Invocations |-> 0]
    /\ items = [i \in Invocations |-> <<>>]
    /\ tracksToRemove = [i \in Invocations |-> <<>>]

NextPruner ==
    \E i \in Invocations :
        \/ allSettled(i)
        \/ getPlaylistTracksSettles(i)
        \/ removeTracksFromPlaylistSettles(i)

SpecPruner == InitPruner /\ [][NextPruner]_vars

(***************************************************************************)
(* Two webhook invocations at once: each runs the whole handler, and their *)
(* steps interleave at every await                                         *)
(***************************************************************************)
OLD_ENTRY == [uri |-> TrackURI(ID_AB), added_at |-> StartTime - 31 * SecondsPerDay]

InitTwo ==
    /\ variant \in {"two", "single"}
    /\ isLocalDevelopment = (variant = "two")
    /\ body = [i \in Invocations |-> TRACK_BODY]
    /\ pc = [i \in Invocations |-> "start"]
    /\ InitLocals
    /\ issued = 0
    /\ calls = <<>>
    /\ playlists = [p \in PlaylistIDs |-> IF p = MONTHLY THEN <<OLD_ENTRY>> ELSE <<>>]
    /\ now = StartTime

SpecTwo == InitTwo /\ [][Next]_vars

(***************************************************************************)
(* Vocabulary of the properties                                            *)
(***************************************************************************)
Started(i) == pc[i] \notin {"start", "unused"}

CallsOf(i, op) == {k \in 1..Len(calls) : calls[k].inv = i /\ calls[k].op = op}

RefreshFailed(i) == \E k \in CallsOf(i, "refresh") : calls[k].result = "failed"
RefreshSucceeded(i) == \E k \in CallsOf(i, "refresh") : calls[k].result = "ok"

\* The calls that need the refreshed token.
DownstreamOps == {"add", "get", "remove"}

\* The HTTP response of invocation i is sent by its first res.status(s).end().
Responded(i) == res[i] # <<>>
HttpStatus(i) == Head(res[i])

\* C1: in both variants, a failed refreshAccessToken makes the invocation
\* answer 500, and 500 is answered only when the refresh failed.
C1_RefreshFailureAnswers500 ==
    \A i \in Invocations :
        /\ RefreshFailed(i) => Responded(i) /\ HttpStatus(i) = 500
        /\ Responded(i) /\ HttpStatus(i) = 500 => RefreshFailed(i)

\* C2: no add, list or remove call is issued before the invocation's refresh
\* has succeeded; after a failed refresh none is issued, and a playlist changes
\* only through a call of an invocation whose refresh succeeded.
C2_Step ==
    /\ \A k \in 1..Len(calls') :
          calls'[k].op \in DownstreamOps =>
              \E j \in 1..(k - 1) :
                  /\ calls'[j].inv = calls'[k].inv
                  /\ calls'[j].op = "refresh"
                  /\ calls'[j].result = "ok"
    /\ \A i \in Invocations :
          RefreshFailed(i)' => \A op \in DownstreamOps : CallsOf(i, op)' = {}
    /\ playlists' # playlists =>
          \E k \in 1..Len(calls) :
              /\ calls[k].op \in {"add", "remove"}
              /\ calls[k].result = "pending"
              /\ calls'[k].result = "ok"
              /\ RefreshSucceeded(calls[k].inv)

C2_RefreshPrecedesPlaylistCalls == [][C2_Step]_vars

\* C2 witness: a refresh failed and the invocation is over.
C2_Witness == \E i \in Invocations : RefreshFailed(i) /\ pc[i] = "done"

ConfiguredPlaylists == IF variant = "two" THEN {ARCHIVE, MONTHLY} ELSE {SINGLE}

Holds(p, track) == \E n \in 1..Len(playlists[p]) : playlists[p][n].uri = track

\* C3: after a successful refresh an add is issued to every configured
\* playlist; when the add to one playlist succeeded and the add to another
\* failed, the invocation answers 200 and the first playlist holds the track.
C3_PartialAddFailure ==
    \A i \in Invocations :
        /\ RefreshSucceeded(i) =>
              \A p \in ConfiguredPlaylists : \E k \in CallsOf(i, "add") : calls[k].playlist = p
        /\ \A a \in CallsOf(i, "add"), b \in CallsOf(i, "add") :
              calls[a].result = "ok" /\ calls[b].result = "failed" /\ Responded(i) =>
                  HttpStatus(i) = 200 /\ Holds(calls[a].playlist, calls[a].track)

\* The decoded text field of the normalised payload.
PlainText(i) == DecodeFrom(Get(tokens[i], KEY_text).s, 1)

Contains(s, p) == \E n \in 1..Len(s) : StartsWithAt(s, n, p)

HasURLOfType(plain, types) ==
    \E scheme \in {HTTP_SCHEME, HTTPS_SCHEME}, type \in types :
        Contains(plain, scheme \o HOST \o <<"/">> \o type \o <<"/">>)

\* C4: a payload that fails validation, or whose text holds no track URL, is
\* answered 400 and no outbound call is issued for it.
C4_Rejected400NoCalls ==
    \A i \in Invocations :
        Started(i) /\ tokens[i].kind # "throw"
            /\ (~isValidPayload[i] \/ ~HasURLOfType(PlainText(i), {T_track})) =>
                /\ res[i] = <<400>>
                /\ \A k \in 1..Len(calls) : calls[k].inv # i

\* C5: a text with a well-formed album, artist or playlist URL makes the
\* extractor return no reference.
C5_NonTrackIsNoReference ==
    \A i \in Invocations :
        Started(i) /\ isValidPayload[i]
            /\ HasURLOfType(PlainText(i), {T_album, T_artist, T_playlist}) =>
                spotifyURL[i] = Undefined /\ pc[i] = "done"

\* spotify:track:<id>, the id without ":" or "/"
IsCanonicalTrackURI(u) ==
    /\ StartsWithAt(u, 1, TrackURI(<<>>))
    /\ Len(u) > Len(TrackURI(<<>>))
    /\ \A n \in (Len(TrackURI(<<>>)) + 1)..Len(u) : u[n] \notin {":", "/"}

\* C6: the track of every addTracksToPlaylist call is a canonical track URI.
C6_AddsCarryTrackURIs ==
    \A k \in 1..Len(calls) : calls[k].op = "add" => IsCanonicalTrackURI(calls[k].track)

TrackIDs == {ID_AB, ID_EXAMPLE}
Queries == {SI_QUERY, SI_EXAMPLE}

\* "<" track URL with a query ">"
BracketedTrackURLs(id) ==
    {<<"<">> \o ResourceURL(scheme, T_track, id, query) \o <<">">> :
        scheme \in {HTTP_SCHEME, HTTPS_SCHEME}, query \in Queries}

\* C7 as stated: every text that contains a bracketed track URL yields
\* spotify:track:<id>.
C7_ContainsBracketedTrack ==
    \A i \in Invocations : \A id \in TrackIDs :
        Started(i) /\ isValidPayload[i]
            /\ (\E u \in BracketedTrackURLs(id) : Contains(PlainText(i), u)) =>
                spotifyURL[i] = Str(TrackURI(id))

\* The bracketed URL u is where the first "http://" or "https://" of the text is.
IsFirstURL(plain, u) ==
    \E n \in 1..Len(plain) :
        /\ StartsWithAt(plain, n, u)
        /\ \A m \in 1..n : ~StartsWithAt(plain, m, HTTP_SCHEME) /\ ~StartsWithAt(plain, m, HTTPS_SCHEME)

\* C7, amended: every percent-encoded text whose first http(s) URL is a
\* bracketed track URL with a query yields spotify:track:<id>, the same id,
\* without query or bracket; the documented example payload yields
\* spotify:track:6J1Qcreg3a9hlJuvJCvjl5.
C7_FirstBracketedTrack ==
    \A i \in Invocations :
        /\ \A id \in TrackIDs :
              Started(i) /\ isValidPayload[i]
                  /\ (\E u \in BracketedTrackURLs(id) : IsFirstURL(PlainText(i), u)) =>
                      spotifyURL[i] = Str(TrackURI(id))
        /\ Started(i) /\ variant = "two" /\ isLocalDevelopment
              /\ body[i] = ExampleForm(EXAMPLE_TEXT) =>
                  spotifyURL[i] = Str(TrackURI(ID_EXAMPLE))

\* C7 witness: the handler has extracted the reference of the example payload.
C7_Witness ==
    \E i \in Invocations :
        /\ body[i] = ExampleForm(EXAMPLE_TEXT)
        /\ pc[i] = "awaitRefresh"
        /\ spotifyURL[i] = Str(TrackURI(ID_EXAMPLE))

\* The mapping has a non-empty string for the key.
NonEmptyAt(payload, key) ==
    \E n \in 1..Len(payload.pairs) :
        /\ payload.pairs[n][1] = key
        /\ payload.pairs[n][2].kind = "string"
        /\ payload.pairs[n][2].s # <<>>

\* C8: the validator returns true exactly for the mappings with a non-empty
\* value for each of token, channel_id and text.
C8_ValidIffThreeNonEmpty ==
    \A i \in Invocations :
        Started(i) /\ tokens[i].kind = "object" =>
            (isValidPayload[i] <=>
                /\ NonEmptyAt(tokens[i], KEY_token)
                /\ NonEmptyAt(tokens[i], KEY_channel_id)
                /\ NonEmptyAt(tokens[i], KEY_text))

\* C8 witness: a mapping whose channel_id is the empty string was rejected.
C8_Witness ==
    \E i \in Invocations :
        /\ Started(i)
        /\ tokens[i].kind = "object"
        /\ NonEmptyAt(tokens[i], KEY_token)
        /\ NonEmptyAt(tokens[i], KEY_text)
        /\ Get(tokens[i], KEY_channel_id) = Str(<<>>)
        /\ ~isValidPayload[i]
        /\ res[i] = <<400>>

\* The age of a fetched entry as the pruner of invocation i computes it, and
\* the retention window, in seconds.
AgeOf(i, entry) == TODAY[i] - entry.added_at
RetentionWindow == AGE_TO_PRUNE_IN_DAYS * SecondsPerDay

Range(seq) == {seq[m] : m \in 1..Len(seq)}

InSuccession(g1, r1, g2, r2) ==
    /\ calls[g1].result = "ok"
    /\ calls[r1].result = "ok"
    /\ calls[r1].settledAfter < g2
    /\ calls[g2].result = "ok"

\* The list and remove calls <<g1, r1, g2, r2>> of the pruner runs of two invocations.
TwoRuns ==
    UNION {CallsOf(ab[1], "get") \X CallsOf(ab[1], "remove")
               \X CallsOf(ab[2], "get") \X CallsOf(ab[2], "remove") :
           ab \in {ab \in Invocations \X Invocations : ab[1] # ab[2]}}

AddsTo(i, p) == {k \in CallsOf(i, "add") : calls[k].playlist = p}

\* C11: an invocation whose refresh succeeded has issued exactly one add call
\* to each configured playlist, whatever the calls' outcomes, and none to any
\* other playlist; no invocation issues a refresh, add, list or remove call a
\* second time.
C11_OneAddPerPlaylistNoRetry ==
    \A i \in Invocations :
        /\ RefreshSucceeded(i) =>
              \A p \in ConfiguredPlaylists : Cardinality(AddsTo(i, p)) = 1
        /\ \A p \in PlaylistIDs :
              Cardinality(AddsTo(i, p)) <= (IF p \in ConfiguredPlaylists THEN 1 ELSE 0)
        /\ \A op \in {"refresh", "get", "remove"} : Cardinality(CallsOf(i, op)) <= 1

\* C11 witness: an add was rejected and the invocation is over.
C11_Witness ==
    \E i \in Invocations :
        /\ pc[i] = "done"
        /\ \E k \in CallsOf(i, "add") : calls[k].result = "failed"
        /\ \A p \in ConfiguredPlaylists : Cardinality(AddsTo(i, p)) = 1

PrunerCalls(i) == CallsOf(i, "get") \cup CallsOf(i, "remove")

\* The add cycle of invocation i succeeded: its adds were issued and at least
\* one of them was accepted.
AddCycleSucceeded(i) == \E a \in CallsOf(i, "add") : calls[a].result = "ok"

\* C12: a list or remove call is issued only after every add call of the
\* invocation has settled, and only in an invocation whose add cycle succeeded.
C12_PrunerOnlyAfterSuccessfulAdds ==
    \A i \in Invocations : \A k \in PrunerCalls(i) :
        /\ \A a \in CallsOf(i, "add") :
              calls[a].result # "pending" /\ calls[a].settledAfter < k
        /\ AddCycleSucceeded(i)

\* C13: when the response of an invocation is sent, its refresh has settled,
\* every add has settled and the pruner has returned or failed: no call of the
\* invocation is pending once it has responded, and none is issued afterwards.
C13_Step ==
    \A i \in Invocations :
        /\ Responded(i)' =>
              \A k \in 1..Len(calls') : calls'[k].inv = i => calls'[k].result # "pending"
        /\ Responded(i) =>
              \A k \in (Len(calls) + 1)..Len(calls') : calls'[k].inv # i

C13_RespondsAfterAllCalls == [][C13_Step]_vars

PrunerFailed(i) == \E k \in PrunerCalls(i) : calls[k].result = "failed"

\* C14: the step in which a list or remove call of the pruner fails changes no
\* playlist and ends the invocation with the single response 200; from then
\* on the invocation issues no call, has none pending, and every track one of
\* its adds appended is in its playlist.
C14_Step ==
    \A i \in Invocations :
        /\ ~PrunerFailed(i) /\ PrunerFailed(i)' =>
              /\ playlists' = playlists
              /\ Len(calls') = Len(calls)
        /\ PrunerFailed(i)' =>
              /\ res'[i] = <<200>>
              /\ pc'[i] = "done"
              /\ \A k \in 1..Len(calls') : calls'[k].inv = i => calls'[k].result # "pending"
              /\ \A a \in CallsOf(i, "add")' :
                    calls'[a].result = "ok" =>
                        \E n \in 1..Len(playlists'[calls'[a].playlist]) :
                            playlists'[calls'[a].playlist][n].uri = calls'[a].track
        /\ PrunerFailed(i) =>
              \A k \in (Len(calls) + 1)..Len(calls') : calls'[k].inv # i

C14_PrunerFailureIsCaught == [][C14_Step]_vars

\* C14 witness: the remove call failed after the add to the monthly playlist
\* had succeeded; another way, the list call failed.
C14_Witness ==
    \E i \in Invocations :
        /\ pc[i] = "done"
        /\ \E k \in CallsOf(i, "remove") : calls[k].result = "failed"
        /\ \E a \in CallsOf(i, "add") : calls[a].result = "ok" /\ calls[a].playlist = MONTHLY

\* What one pruner run has done so far: one list call at most, then one remove
\* call at most; the page has at most PAGE_LIMIT entries; the remove call
\* follows the successful list call and names, in order, the URIs of exactly
\* the fetched entries whose age is at least the retention window.
C15_Run ==
    \A i \in Invocations :
        /\ Cardinality(CallsOf(i, "get")) <= 1
        /\ Cardinality(CallsOf(i, "remove")) <= 1
        /\ Len(items[i]) <= PAGE_LIMIT
        /\ \A r \in CallsOf(i, "remove") :
              /\ \E g \in CallsOf(i, "get") : g < r /\ calls[g].result = "ok"
              /\ tracksToRemove[i] =
                    SelectSeq(items[i], LAMBDA entry : AgeOf(i, entry) >= RetentionWindow)
              /\ calls[r].uris =
                    [n \in 1..Len(tracksToRemove[i]) |-> tracksToRemove[i][n].uri]

\* The list call of invocation i is answered in this step.
Listed(i) ==
    \E g \in CallsOf(i, "get") : calls[g].result = "pending" /\ calls'[g].result = "ok"

\* The remove call of invocation i, naming no URI, settles in this step.
EmptyRemovalSettles(i) ==
    \E r \in CallsOf(i, "remove") :
        /\ calls[r].uris = <<>>
        /\ calls[r].result = "pending"
        /\ calls'[r].result # "pending"

\* C15: every pruner run is one list call of at most 50 entries, the first 50
\* of the playlist, followed by at most one remove call naming exactly the
\* selected entries' URIs; a run that selected nothing leaves every playlist
\* as it was and the invocation answers 200.
C15_Step ==
    /\ C15_Run'
    /\ \A i \in Invocations :
          /\ Listed(i) =>
                items'[i] = SubSeq(playlists[MONTHLY], 1, Min({PAGE_LIMIT, Len(playlists[MONTHLY])}))
          /\ EmptyRemovalSettles(i) => playlists' = playlists /\ res'[i] = <<200>>

ParserRaises(i) ==
    /\ tokens[i].kind = "object"
    /\ isValidPayload[i]
    /\ LET decoded == decodeURIComponent(Get(tokens[i], KEY_text).s)
       IN  /\ decoded.kind = "string"
           /\ LET candidate == SlicedMatch(decoded.s)
              IN  /\ candidate.kind = "string"
                  /\ candidate.s # <<>>
                  /\ spotifyUriParse(candidate.s).kind = "throw"

\* C16: when the URI parser raises, the extractor yields no reference and the
\* handler completes with the response 400, without any outbound call.
C16_ParseErrorIsNoReference ==
    \A i \in Invocations :
        Started(i) /\ ParserRaises(i) =>
            /\ spotifyURL[i] = Undefined
            /\ pc[i] = "done"
            /\ res[i] = <<400>>
            /\ \A k \in 1..Len(calls) : calls[k].inv # i

\* The string the normaliser of invocation i splits: the request body in the
\* two-playlist variant under local development, the stringified body in the
\* single-playlist variant.
NormalizerInput(i) ==
    IF variant = "single" THEN JSONstringify(body[i])
    ELSE IF isLocalDevelopment THEN body[i]
    ELSE Undefined

\* A pair cut at its first "=" only: the key, and the whole remainder as the
\* value, or no value when the pair has no "=".
FirstEq(cur) == IndicesOf(cur, 1, {"="})
KeyAtFirstEq(cur) == IF FirstEq(cur) = {} THEN cur ELSE SubSeq(cur, 1, Min(FirstEq(cur)) - 1)
ValueAtFirstEq(cur) ==
    IF FirstEq(cur) = {} THEN Undefined
    ELSE Str(SubSeq(cur, Min(FirstEq(cur)) + 1, Len(cur)))

\* C17: the normaliser maps the key of every "&"-separated pair to the whole
\* remainder after the pair's first "=", and to an absent value when the pair
\* has no "="; a required key without a value makes validation fail.
C17_SplitAtFirstEquals ==
    \A i \in Invocations :
        Started(i) /\ NormalizerInput(i).kind = "string" =>
            LET pairs == Split(NormalizerInput(i).s, "&")
                KeyIsUnique(n) ==
                    \A m \in 1..Len(pairs) :
                        KeyAtFirstEq(pairs[m]) = KeyAtFirstEq(pairs[n]) => m = n
            IN  \A n \in 1..Len(pairs) :
                    KeyIsUnique(n) =>
                        /\ Get(tokens[i], KeyAtFirstEq(pairs[n])) = ValueAtFirstEq(pairs[n])
                        /\ KeyAtFirstEq(pairs[n]) \in MUST_HAVE_KEYS
                               /\ ValueAtFirstEq(pairs[n]) = Undefined =>
                              ~isValidPayload[i] /\ res[i] = <<400>>

\* The access token the refresh call of invocation i returned.
OwnTokens(i) == {calls[r].returned : r \in {r \in CallsOf(i, "refresh") : calls[r].result = "ok"}}

\* C18: every add, list and remove call carries the access token returned by
\* the refresh call of the invocation that issues it, which no other
\* invocation's refresh returned; the token an invocation's client holds is
\* the initial credential or its own refreshed token.
C18_TokensAreNotShared ==
    /\ \A k \in 1..Len(calls) :
          calls[k].op \in DownstreamOps =>
              /\ calls[k].token \in OwnTokens(calls[k].inv)
              /\ \A j \in Invocations \ {calls[k].inv} : calls[k].token \notin OwnTokens(j)
    /\ \A i \in Invocations : accessToken[i] \in {AUTHORIZATION_CODE} \cup OwnTokens(i)

\* C18 witness: the refresh of one invocation succeeded between the refresh
\* and the list call of the other, and both invocations went on to list.
C18_Witness ==
    \E a \in Invocations, b \in Invocations :
        /\ a # b
        /\ CallsOf(b, "get") # {}
        /\ \E ra \in CallsOf(a, "refresh"), rb \in CallsOf(b, "refresh"), g \in CallsOf(a, "get") :
              /\ calls[ra].result = "ok"
              /\ calls[rb].result = "ok"
              /\ calls[ra].settledAfter < calls[rb].settledAfter
              /\ calls[rb].settledAfter < g

\* C19: an invocation sets a status and ends its response at most once, and an
\* invocation whose handler has completed has done so exactly once.
C19_ExactlyOneResponse ==
    \A i \in Invocations :
        /\ Len(res[i]) <= 1
        /\ pc[i] = "done" => Len(res[i]) = 1

\* C20: after a pruner run whose removal was accepted, every entry the run
\* fetched that is younger than the retention window, the one the invocation
\* itself added included, is still in the playlist.
C20_YoungEntriesSurvive ==
    \A i \in Invocations : \A r \in CallsOf(i, "remove") :
        calls[r].result = "ok" =>
            \A entry \in Range(items[i]) :
                AgeOf(i, entry) < RetentionWindow =>
                    entry \in Range(playlists[calls[r].playlist])

====
